---- MODULE Spec2Model ----
(***************************************************************************)
(* sam_bam_verify: main() of src/sam_bam_verify/sam_bam_verify.c as a      *)
(* state machine.  C strings are sequences of one-character strings; the   *)
(* alignment I/O library (samopen, samread, bam_write1, samclose) is the   *)
(* environment: every call has the outcomes its return value can report.   *)
(***************************************************************************)
EXTENDS Integers, Sequences, FiniteSets, TLC

\* ------------------------------------------------------------------ bounds
MaxTargets  == 2   \* reference entries in a header table
MaxNameToks == 2   \* tokens a reference name is built from
MaxTextToks == 4   \* tokens an arbitrary header text is built from
MaxRecords  == 3   \* alignment records in the input container
MaxPathSegs == 3   \* segments an input path is built from

\* ------------------------------------------------------- string primitives
TAB == "\t"
NL  == "\n"
NUL == "NUL"       \* the terminating byte of a C string buffer

CHR    == <<"c", "h", "r">>                      \* "chr"
SNCHR  == <<"S", "N", ":", "c", "h", "r">>       \* "SN:chr"
DOTBAM == <<".", "b", "a", "m">>                 \* ".bam"
DASHV  == <<"-", "v">>                           \* "-v"

RECURSIVE Concat(_)
Concat(ss) == IF ss = <<>> THEN <<>> ELSE Head(ss) \o Concat(Tail(ss))

\* tolower() on the characters that occur in the modelled paths
ToLower(c) ==
  CASE c = "B" -> "b"
    [] c = "A" -> "a"
    [] c = "M" -> "m"
    [] OTHER   -> c

LowerStr(s) == [k \in 1..Len(s) |-> ToLower(s[k])]

\* does pat occur in s at 1-based position k
MatchAt(s, pat, k) ==
  /\ k >= 1
  /\ k + Len(pat) - 1 <= Len(s)
  /\ \A j \in 1..Len(pat) : s[k + j - 1] = pat[j]

\* strstr: 1-based position of the first occurrence of pat in s, 0 for NULL
StrStr(s, pat) ==
  IF \E k \in 1..Len(s) : MatchAt(s, pat, k)
  THEN CHOOSE k \in 1..Len(s) :
         /\ MatchAt(s, pat, k)
         /\ \A j \in 1..(k - 1) : ~MatchAt(s, pat, j)
  ELSE 0

\* strcasestr: as strstr, comparing case-insensitively
StrCaseStr(s, pat) == StrStr(LowerStr(s), LowerStr(pat))

\* strcasecmp(a, b) == 0
StrCaseEq(a, b) == LowerStr(a) = LowerStr(b)

\* the C string starting at 1-based position k of s (pointer arithmetic)
StrFrom(s, k) == SubSeq(s, k, Len(s))

\* "%d" of a non-negative int: its decimal digits
Digit(d) == <<"0", "1", "2", "3", "4", "5", "6", "7", "8", "9">>[d + 1]

RECURSIVE IntToDec(_)
IntToDec(n) == IF n < 10 THEN <<Digit(n)>>
               ELSE IntToDec(n \div 10) \o <<Digit(n % 10)>>

\* asprintf(&buf1, "@SQ\tSN:%s\tLN:%d\n", name, len)
SqLine(e) ==
  <<"@", "S", "Q", TAB, "S", "N", ":">> \o e.name
    \o <<TAB, "L", "N", ":">> \o IntToDec(e.len) \o <<NL>>

\* ---------------------------------------------------- strcpy on overlap
\* strcpy(replace_here+3, replace_here+6) copies between overlapping
\* objects, which C leaves undefined.  The outcomes modelled are the ones
\* libc builds produce: a copy from the low end, a copy from the high end
\* (strlen followed by a descending block copy), and a fortified strcpy
\* that detects the overlap and aborts.
StrcpyImpls == {"forward", "backward", "trap"}

\* the bytes of a buffer up to its first NUL
CStr(buf) ==
  LET z == CHOOSE k \in 1..Len(buf) :
             buf[k] = NUL /\ \A j \in 1..(k - 1) : buf[j] # NUL
  IN SubSeq(buf, 1, z - 1)

RECURSIVE CopyUp(_, _, _, _, _)
CopyUp(buf, dst, src, k, n) ==
  IF k >= n THEN buf
  ELSE CopyUp([buf EXCEPT ![dst + k] = buf[src + k]], dst, src, k + 1, n)

RECURSIVE CopyDown(_, _, _, _)
CopyDown(buf, dst, src, k) ==
  IF k < 0 THEN buf
  ELSE CopyDown([buf EXCEPT ![dst + k] = buf[src + k]], dst, src, k - 1)

\* new_text after strcpy(replace_here+3, replace_here+6), replace_here
\* being the 1-based position p of new_text
StrcpyOverlap(impl, s, p) ==
  LET buf == s \o <<NUL>>
      n   == Len(buf) - (p + 6) + 1          \* strlen(src) + 1 bytes
  IN IF impl = "forward"
     THEN CStr(CopyUp(buf, p + 3, p + 6, 0, n))
     ELSE CStr(CopyDown(buf, p + 3, p + 6, n - 1))

\* ------------------------------------------------------------------ inputs
PROG  == <<"v">>
OUT   == <<"o", ".", "b", "a", "m">>
INP   == <<"i", ".", "s", "a", "m">>
REF   == <<"r", ".", "f", "a">>

PathSegs == { <<"x">>, <<"/">>, DOTBAM, <<".", "B", "A", "M">>,
              <<".", "s", "a", "m">> }

RECURSIVE SeqsUpTo(_, _)
SeqsUpTo(S, n) ==
  IF n = 0 THEN {<<>>}
  ELSE LET shorter == SeqsUpTo(S, n - 1)
       IN shorter \cup {Append(s, x) : s \in shorter, x \in S}

Paths == {Concat(ss) : ss \in SeqsUpTo(PathSegs, MaxPathSegs) \ {<<>>}}

ArgTails == {<<>>, <<DASHV>>, <<REF>>, <<REF, DASHV>>}

\* argv[0..argc-1] as argv[1..argc]
ArgvAll ==
  {<<PROG>>} \cup {<<PROG, p>> : p \in {INP, OUT}}
    \cup {<<PROG, p, OUT>> \o t : p \in Paths, t \in ArgTails}
    \cup {<<PROG, p, p>> \o t : p \in {INP, DOTBAM}, t \in ArgTails}

NameToks == {CHR, <<"1">>}
Names == {Concat(ss) : ss \in SeqsUpTo(NameToks, MaxNameToks) \ {<<>>}}
           \cup {<<"C", "h", "r", "1">>}
TargetLens == {3, 4, 12}
Entries == [name : Names, len : TargetLens]

\* the entries tables of several entries are built from
CoreEntries ==
  [name : {CHR, <<"1">>, CHR \o <<"1">>, CHR \o CHR \o <<"1">>}, len : {3, 4}]

\* every table of one entry, and the tables of up to MaxTargets core entries
Tables == {<<e>> : e \in Entries} \cup SeqsUpTo(CoreEntries, MaxTargets)

TextToks == { <<"S", "N", ":">>, CHR, <<"1">>, <<"c">>,
              <<TAB, "L", "N", ":", "7", NL>> }
Texts == {Concat(ss) : ss \in SeqsUpTo(TextToks, MaxTextToks)}

BAM_FUNMAP == 4
Records == [id : {1, 2}, flag : {0, BAM_FUNMAP}]
RecordSeqs == SeqsUpTo(Records, MaxRecords)

\* the header text a container declares for a table: one @SQ line per entry
RECURSIVE Declared(_)
Declared(t) == IF t = <<>> THEN <<>> ELSE SqLine(Head(t)) \o Declared(Tail(t))

OneTable == << [name |-> <<"c", "h", "r", "1">>, len |-> 12] >>
OneRecord == << [id |-> 1, flag |-> 0] >>

\* an input container: its header (table, text, text == NULL) and records
File(t, null, txt, recs) ==
  [targets |-> t, textNull |-> null, text |-> txt, records |-> recs]

\* ------------------------------------------------------------------- state
VARIABLES
  argv,               \* the command line
  inFile,             \* content of the input container (infp->header, records)
  strcpyImpl,         \* the libc's strcpy on overlapping buffers
  pc,                 \* position in main
  exitCode,           \* -1 while running
  debug_level,
  in_mode,            \* "r" or "rb"
  aux,                \* third argument of samopen for the input
  inOpen, outOpen,    \* infp / outfp opened and not yet closed
  header,             \* bam_header_dup(infp->header), then rewritten
  i,                  \* loop index
  new_text,           \* line 78
  outHeader,          \* the header samopen(argv[2], "wb", header) was given
  alignment,          \* the record buffer
  inPos,              \* records samread has delivered
  lastRead,           \* what the last samread returned: none, rec, eof, err
  writeFails,         \* bam_write1 calls that returned an error
  outRecs,            \* records in the output container
  mapped_read_count,
  stdout, stderr

vars == <<argv, inFile, strcpyImpl, pc, exitCode, debug_level, in_mode, aux,
          inOpen, outOpen, header, i, new_text, outHeader, alignment, inPos,
          lastRead, writeFails, outRecs, mapped_read_count, stdout, stderr>>

NoHeader == [targets |-> <<>>, textNull |-> TRUE, text |-> <<>>, l_text |-> 0]
NoRecord == [id |-> 0, flag |-> 0]

argc == Len(argv)

\* what the process is started with: a command line, an input container
\* and a libc
Inputs ==
  \/ /\ argv \in ArgvAll
     /\ inFile = File(OneTable, FALSE, <<>>, OneRecord)
     /\ strcpyImpl = "forward"
  \/ /\ argv = <<PROG, INP, OUT>>
     /\ \E t \in Tables :
          \/ inFile = File(t, TRUE, <<>>, <<>>)
          \/ inFile = File(t, FALSE, <<>>, <<>>)
          \/ inFile = File(t, FALSE, Declared(t), <<>>)
     /\ strcpyImpl = "forward"
  \/ /\ argv = <<PROG, INP, OUT>>
     /\ \E txt \in Texts : inFile = File(OneTable, FALSE, txt, <<>>)
     /\ strcpyImpl \in StrcpyImpls
  \/ /\ argv = <<PROG, INP, OUT>>
     /\ \E recs \in RecordSeqs : inFile = File(OneTable, FALSE, <<>>, recs)
     /\ strcpyImpl = "forward"

Init ==
  /\ Inputs
  /\ pc = "start"
  /\ exitCode = -1
  /\ debug_level = 0
  /\ in_mode = "r"
  /\ aux = <<>>
  /\ inOpen = FALSE
  /\ outOpen = FALSE
  /\ header = NoHeader
  /\ i = 0
  /\ new_text = <<>>
  /\ outHeader = NoHeader
  /\ alignment = NoRecord
  /\ inPos = 0
  /\ lastRead = "none"
  /\ writeFails = 0
  /\ outRecs = <<>>
  /\ mapped_read_count = 0
  /\ stdout = <<>>
  /\ stderr = <<>>

\* process termination with a status
Exit(code) == pc' = "exited" /\ exitCode' = code

\* ------------------------------------------------------- lines 12-37: args
\* line 12-14
UsageError ==
  /\ pc = "start"
  /\ argc < 3
  /\ stderr' = stderr \o <<"usage">>
  /\ Exit(1)
  /\ UNCHANGED <<argv, inFile, strcpyImpl, debug_level, in_mode, aux, inOpen,
                 outOpen, header, i, new_text, outHeader, alignment, inPos,
                 lastRead, writeFails, outRecs, mapped_read_count, stdout>>

\* line 16-20
SameFileError ==
  /\ pc = "start"
  /\ argc >= 3
  /\ argv[2] = argv[3]
  /\ stderr' = stderr \o <<"same file", "usage">>
  /\ Exit(1)
  /\ UNCHANGED <<argv, inFile, strcpyImpl, debug_level, in_mode, aux, inOpen,
                 outOpen, header, i, new_text, outHeader, alignment, inPos,
                 lastRead, writeFails, outRecs, mapped_read_count, stdout>>

\* line 22-26: aux = samfaipath(argv[3]) when a hint that is not -v is given
AuxOf(av) == IF Len(av) >= 4 /\ av[4] # DASHV THEN av[4] ELSE <<>>

\* line 28-30
DebugOf(av) == IF av[Len(av)] = DASHV THEN 1 ELSE 0

\* line 31-32: extension && strcasecmp(extension, ".bam") == 0
IsBamPath(path) ==
  LET extension == StrCaseStr(path, DOTBAM)
  IN extension # 0 /\ StrCaseEq(StrFrom(path, extension), DOTBAM)

\* line 22-34 up to the samopen call
PrepareInput ==
  /\ debug_level' = DebugOf(argv)
  /\ in_mode' = IF IsBamPath(argv[2]) THEN "rb" ELSE "r"
  /\ aux' = IF IsBamPath(argv[2]) THEN <<>> ELSE AuxOf(argv)

\* line 34: samopen succeeds
OpenInputOk ==
  /\ pc = "start"
  /\ argc >= 3
  /\ argv[2] # argv[3]
  /\ PrepareInput
  /\ inOpen' = TRUE
  /\ pc' = "load"
  /\ UNCHANGED <<argv, inFile, strcpyImpl, exitCode, outOpen, header, i,
                 new_text, outHeader, alignment, inPos, lastRead, writeFails,
                 outRecs, mapped_read_count, stdout, stderr>>

\* line 34-37: samopen returns 0
OpenInputFail ==
  /\ pc = "start"
  /\ argc >= 3
  /\ argv[2] # argv[3]
  /\ PrepareInput
  /\ stderr' = stderr \o <<"failed to open input">>
  /\ Exit(1)
  /\ UNCHANGED <<argv, inFile, strcpyImpl, inOpen, outOpen, header, i,
                 new_text, outHeader, alignment, inPos, lastRead, writeFails,
                 outRecs, mapped_read_count, stdout>>

\* ------------------------------------------------ lines 40-45: load header
\* bam_header_dup(infp->header); bam_init1(); mapped_read_count = 0
LoadHeader ==
  /\ pc = "load"
  /\ header' = [targets  |-> inFile.targets,
                textNull |-> inFile.textNull,
                text     |-> inFile.text,
                l_text   |-> Len(inFile.text)]
  /\ alignment' = NoRecord
  /\ mapped_read_count' = 0
  /\ i' = 0
  /\ pc' = "norm"
  /\ UNCHANGED <<argv, inFile, strcpyImpl, exitCode, debug_level, in_mode, aux,
                 inOpen, outOpen, new_text, outHeader, inPos, lastRead,
                 writeFails, outRecs, stdout, stderr>>

\* ------------------------------------- lines 48-60: normalize the table
\* line 50: target == strstr(target, "chr")
StartsWithChr(target) == StrStr(target, CHR) = 1

\* NormalizeEntry without the guards of line 51
NormalizeEntry_Unguarded(e) ==
  IF StartsWithChr(e.name)
  THEN LET new == StrFrom(e.name, 4)
       IN [name |-> new, len |-> Len(new)]
  ELSE e

\* line 49-59, one entry
NormalizeEntry(e) ==
  IF StartsWithChr(e.name)
  THEN IF Len(e.name) > 3 /\ e.len > 3
       THEN LET new == StrFrom(e.name, 4)
            IN [name |-> new, len |-> Len(new)]
       ELSE e
  ELSE e

\* one iteration of the loop of line 48
NormalizeStep ==
  /\ pc = "norm"
  /\ i < Len(header.targets)
  /\ LET e == header.targets[i + 1]
         n == NormalizeEntry(e)
     IN /\ header' = [header EXCEPT !.targets[i + 1] = n]
        /\ stderr' = IF n # e /\ debug_level = 1
                     THEN Append(stderr, "removing chr prefix")
                     ELSE stderr
  /\ i' = i + 1
  /\ UNCHANGED <<argv, inFile, strcpyImpl, pc, exitCode, debug_level, in_mode,
                 aux, inOpen, outOpen, new_text, outHeader, alignment, inPos,
                 lastRead, writeFails, outRecs, mapped_read_count, stdout>>

\* line 64: (!header->text || strlen(header->text) == 0) && n_targets > 0
NeedsSynthesis(h) ==
  (h.textNull \/ Len(h.text) = 0) /\ Len(h.targets) > 0

\* line 48 exit, line 64 taken, lines 66-70
SynthBegin ==
  /\ pc = "norm"
  /\ i >= Len(header.targets)
  /\ NeedsSynthesis(header)
  /\ header' = [header EXCEPT !.text = <<>>, !.textNull = FALSE]
  /\ stderr' = Append(stderr, "no header found, regenerating")
  /\ i' = 0
  /\ pc' = "synth"
  /\ UNCHANGED <<argv, inFile, strcpyImpl, exitCode, debug_level, in_mode, aux,
                 inOpen, outOpen, new_text, outHeader, alignment, inPos,
                 lastRead, writeFails, outRecs, mapped_read_count, stdout>>

\* line 48 exit, line 64 not taken
SynthSkip ==
  /\ pc = "norm"
  /\ i >= Len(header.targets)
  /\ ~NeedsSynthesis(header)
  /\ pc' = "dup"
  /\ UNCHANGED <<argv, inFile, strcpyImpl, exitCode, debug_level, in_mode, aux,
                 inOpen, outOpen, header, i, new_text, outHeader, alignment,
                 inPos, lastRead, writeFails, outRecs, mapped_read_count,
                 stdout, stderr>>

\* lines 70-76, one iteration, both asprintf calls succeed
SynthStep ==
  /\ pc = "synth"
  /\ i < Len(header.targets)
  /\ header' = [header EXCEPT !.text = header.text \o SqLine(header.targets[i + 1])]
  /\ i' = i + 1
  /\ UNCHANGED <<argv, inFile, strcpyImpl, pc, exitCode, debug_level, in_mode,
                 aux, inOpen, outOpen, new_text, outHeader, alignment, inPos,
                 lastRead, writeFails, outRecs, mapped_read_count, stdout,
                 stderr>>

\* lines 71-72: asprintf returns < 0, exit(1)
SynthAllocFail ==
  /\ pc = "synth"
  /\ i < Len(header.targets)
  /\ Exit(1)
  /\ UNCHANGED <<argv, inFile, strcpyImpl, debug_level, in_mode, aux, inOpen,
                 outOpen, header, i, new_text, outHeader, alignment, inPos,
                 lastRead, writeFails, outRecs, mapped_read_count, stdout,
                 stderr>>

\* line 70 exit
SynthDone ==
  /\ pc = "synth"
  /\ i >= Len(header.targets)
  /\ pc' = "dup"
  /\ UNCHANGED <<argv, inFile, strcpyImpl, exitCode, debug_level, in_mode, aux,
                 inOpen, outOpen, header, i, new_text, outHeader, alignment,
                 inPos, lastRead, writeFails, outRecs, mapped_read_count,
                 stdout, stderr>>

\* ---------------------------------------- lines 78-86: rewrite the text
\* line 78: new_text = strdup(header->text)
DupText ==
  /\ pc = "dup"
  /\ ~header.textNull
  /\ new_text' = header.text
  /\ pc' = "rewrite"
  /\ UNCHANGED <<argv, inFile, strcpyImpl, exitCode, debug_level, in_mode, aux,
                 inOpen, outOpen, header, i, outHeader, alignment, inPos,
                 lastRead, writeFails, outRecs, mapped_read_count, stdout,
                 stderr>>

\* line 78 with header->text == NULL (no text, no targets): strdup reads
\* through a null pointer and the process dies of SIGSEGV
DupNullText ==
  /\ pc = "dup"
  /\ header.textNull
  /\ Exit(139)
  /\ UNCHANGED <<argv, inFile, strcpyImpl, debug_level, in_mode, aux, inOpen,
                 outOpen, header, i, new_text, outHeader, alignment, inPos,
                 lastRead, writeFails, outRecs, mapped_read_count, stdout,
                 stderr>>

\* line 79: replace_here = strstr(new_text, "SN:chr")
ReplaceHere(s) == StrStr(s, SNCHR)

\* the source and destination of line 80 overlap when more than 3 bytes
\* (terminator included) are copied
CopyOverlaps(s, p) == Len(s) - (p + 5) + 1 > 3

\* lines 79-80, one iteration
RewriteStep ==
  /\ pc = "rewrite"
  /\ ReplaceHere(new_text) # 0
  /\ ~(strcpyImpl = "trap" /\ CopyOverlaps(new_text, ReplaceHere(new_text)))
  /\ new_text' = StrcpyOverlap(strcpyImpl, new_text, ReplaceHere(new_text))
  /\ UNCHANGED <<argv, inFile, strcpyImpl, pc, exitCode, debug_level, in_mode,
                 aux, inOpen, outOpen, header, i, outHeader, alignment, inPos,
                 lastRead, writeFails, outRecs, mapped_read_count, stdout,
                 stderr>>

\* line 80 under a strcpy that checks for overlap: abort()
RewriteTrap ==
  /\ pc = "rewrite"
  /\ ReplaceHere(new_text) # 0
  /\ strcpyImpl = "trap"
  /\ CopyOverlaps(new_text, ReplaceHere(new_text))
  /\ Exit(134)
  /\ UNCHANGED <<argv, inFile, strcpyImpl, debug_level, in_mode, aux, inOpen,
                 outOpen, header, i, new_text, outHeader, alignment, inPos,
                 lastRead, writeFails, outRecs, mapped_read_count, stdout,
                 stderr>>

\* line 79 exit, lines 82-90
RewriteDone ==
  /\ pc = "rewrite"
  /\ ReplaceHere(new_text) = 0
  /\ header' = [header EXCEPT !.text = new_text, !.l_text = Len(new_text)]
  /\ stderr' = IF debug_level = 1 THEN Append(stderr, "new header") ELSE stderr
  /\ pc' = "openout"
  /\ UNCHANGED <<argv, inFile, strcpyImpl, exitCode, debug_level, in_mode, aux,
                 inOpen, outOpen, i, new_text, outHeader, alignment, inPos,
                 lastRead, writeFails, outRecs, mapped_read_count, stdout>>

\* ------------------------------------------- lines 93-96: open the output
OpenOutputOk ==
  /\ pc = "openout"
  /\ outOpen' = TRUE
  /\ outHeader' = header
  /\ pc' = "read"
  /\ UNCHANGED <<argv, inFile, strcpyImpl, exitCode, debug_level, in_mode, aux,
                 inOpen, header, i, new_text, alignment, inPos, lastRead,
                 writeFails, outRecs, mapped_read_count, stdout, stderr>>

\* samopen returns 0: message, return 1
OpenOutputFail ==
  /\ pc = "openout"
  /\ stderr' = Append(stderr, "failed to open output")
  /\ Exit(1)
  /\ UNCHANGED <<argv, inFile, strcpyImpl, debug_level, in_mode, aux, inOpen,
                 outOpen, header, i, new_text, outHeader, alignment, inPos,
                 lastRead, writeFails, outRecs, mapped_read_count, stdout>>

\* ------------------------------------------ lines 98-102: stream records
\* line 98: samread delivers the next record (return value >= 0)
ReadRecord ==
  /\ pc = "read"
  /\ inPos < Len(inFile.records)
  /\ alignment' = inFile.records[inPos + 1]
  /\ inPos' = inPos + 1
  /\ lastRead' = "rec"
  /\ pc' = "body"
  /\ UNCHANGED <<argv, inFile, strcpyImpl, exitCode, debug_level, in_mode, aux,
                 inOpen, outOpen, header, i, new_text, outHeader, writeFails,
                 outRecs, mapped_read_count, stdout, stderr>>

\* line 98: samread reports end of stream (-1)
ReadEof ==
  /\ pc = "read"
  /\ inPos = Len(inFile.records)
  /\ lastRead' = "eof"
  /\ pc' = "report"
  /\ UNCHANGED <<argv, inFile, strcpyImpl, exitCode, debug_level, in_mode, aux,
                 inOpen, outOpen, header, i, new_text, outHeader, alignment,
                 inPos, writeFails, outRecs, mapped_read_count, stdout,
                 stderr>>

\* line 98: samread reports a read failure (a value below -1); the loop
\* condition is the same >= 0 test
ReadError ==
  /\ pc = "read"
  /\ lastRead' = "err"
  /\ pc' = "report"
  /\ UNCHANGED <<argv, inFile, strcpyImpl, exitCode, debug_level, in_mode, aux,
                 inOpen, outOpen, header, i, new_text, outHeader, alignment,
                 inPos, writeFails, outRecs, mapped_read_count, stdout,
                 stderr>>

\* line 100: !(core->flag & BAM_FUNMAP), the flag being flag values 0 and 4
IsMapped(rec) == (rec.flag \div BAM_FUNMAP) % 2 = 0

\* line 100
CountOf(count, rec) == IF IsMapped(rec) THEN count + 1 ELSE count

\* lines 100-101, bam_write1 succeeds
WriteRecord ==
  /\ pc = "body"
  /\ mapped_read_count' = CountOf(mapped_read_count, alignment)
  /\ outRecs' = Append(outRecs, alignment)
  /\ pc' = "read"
  /\ UNCHANGED <<argv, inFile, strcpyImpl, exitCode, debug_level, in_mode, aux,
                 inOpen, outOpen, header, i, new_text, outHeader, alignment,
                 inPos, lastRead, writeFails, stdout, stderr>>

\* lines 100-101, bam_write1 fails; its return value is not looked at
WriteError ==
  /\ pc = "body"
  /\ mapped_read_count' = CountOf(mapped_read_count, alignment)
  /\ writeFails' = writeFails + 1
  /\ pc' = "read"
  /\ UNCHANGED <<argv, inFile, strcpyImpl, exitCode, debug_level, in_mode, aux,
                 inOpen, outOpen, header, i, new_text, outHeader, alignment,
                 inPos, lastRead, outRecs, stdout, stderr>>

\* ------------------------------------------ lines 103-110: report, close
\* lines 103-106: printf("Mapped reads: %lld\n", mapped_read_count)
Report ==
  /\ pc = "report"
  /\ alignment' = NoRecord
  /\ stdout' = Append(stdout, <<"Mapped reads: ">> \o IntToDec(mapped_read_count))
  /\ pc' = "close"
  /\ UNCHANGED <<argv, inFile, strcpyImpl, exitCode, debug_level, in_mode, aux,
                 inOpen, outOpen, header, i, new_text, outHeader, inPos,
                 lastRead, writeFails, outRecs, mapped_read_count, stderr>>

\* lines 108-110
CloseAll ==
  /\ pc = "close"
  /\ outOpen' = FALSE
  /\ inOpen' = FALSE
  /\ Exit(0)
  /\ UNCHANGED <<argv, inFile, strcpyImpl, debug_level, in_mode, aux, header,
                 i, new_text, outHeader, alignment, inPos, lastRead,
                 writeFails, outRecs, mapped_read_count, stdout, stderr>>

Next ==
  \/ UsageError \/ SameFileError \/ OpenInputOk \/ OpenInputFail
  \/ LoadHeader
  \/ NormalizeStep \/ SynthBegin \/ SynthSkip
  \/ SynthStep \/ SynthAllocFail \/ SynthDone
  \/ DupText \/ DupNullText
  \/ RewriteStep \/ RewriteTrap \/ RewriteDone
  \/ OpenOutputOk \/ OpenOutputFail
  \/ ReadRecord \/ ReadEof \/ ReadError
  \/ WriteRecord \/ WriteError
  \/ Report \/ CloseAll

Spec == Init /\ [][Next]_vars

\* ---------------------------------------------------------------- claims
\* vocabulary of the properties
AfterNormalize == pc \in {"synth", "dup", "rewrite", "openout", "read", "body",
                          "report", "close"}
AfterRewrite   == pc \in {"openout", "read", "body", "report", "close"}
AfterLoad      == pc \in {"norm"} \/ AfterNormalize

HasChrPrefix(name) == Len(name) >= 3 /\ SubSeq(name, 1, 3) = CHR

Unmapped(rec) == rec.flag = BAM_FUNMAP

RECURSIVE CountMapped(_)
CountMapped(recs) ==
  IF recs = <<>> THEN 0
  ELSE (IF Unmapped(Head(recs)) THEN 0 ELSE 1) + CountMapped(Tail(recs))

RecordsRead == SubSeq(inFile.records, 1, inPos)

EndsWith(s, suf) ==
  Len(s) >= Len(suf) /\ SubSeq(s, Len(s) - Len(suf) + 1, Len(s)) = suf

\* one left-to-right pass that drops a "chr" whenever what was kept so far
\* ends with "SN:"
RECURSIVE DropChrAfterSN(_, _)
DropChrAfterSN(kept, rest) ==
  IF rest = <<>> THEN kept
  ELSE IF EndsWith(kept, <<"S", "N", ":">>) /\ HasChrPrefix(rest)
       THEN DropChrAfterSN(kept, SubSeq(rest, 4, Len(rest)))
       ELSE DropChrAfterSN(Append(kept, Head(rest)), Tail(rest))

InputLacksText ==
  (inFile.textNull \/ inFile.text = <<>>) /\ Len(inFile.targets) > 0

\* the text the rewrite loop of line 79 starts from
RewriterInput ==
  IF InputLacksText THEN Declared(header.targets) ELSE inFile.text

\* the names in the SN: fields of a header text, in order
RECURSIVE SNFields(_)
SNFields(s) ==
  LET p == StrStr(s, <<"S", "N", ":">>)
  IN IF p = 0 THEN <<>>
     ELSE LET rest == StrFrom(s, p + 3)
              t    == StrStr(rest, <<TAB>>)
          IN IF t = 0 THEN <<rest>>
             ELSE <<SubSeq(rest, 1, t - 1)>> \o SNFields(StrFrom(rest, t))

TableNames(t) == [k \in 1..Len(t) |-> t[k].name]

\* C1: order preservation.  Whenever the loop is about to read, and when
\* streaming has ended, the records written to the output container are the
\* records read from the input container, in order and count.
C1_OrderPreserved ==
  (pc \in {"read", "report", "close"} \/ (pc = "exited" /\ exitCode = 0))
    => outRecs = RecordsRead

\* C2: mapped-count correctness.  The counter is zero until streaming
\* starts, and the one reported line carries the number of input records
\* whose unmapped bit is clear.
C2_MappedCount ==
  /\ (AfterLoad /\ pc \notin {"body", "report", "close"} /\ inPos = 0)
       => mapped_read_count = 0
  /\ stdout # <<>> =>
       stdout = << <<"Mapped reads: ">> \o IntToDec(CountMapped(inFile.records)) >>

\* C3: reference name normalizer.  Once the loop of line 48 has passed an
\* entry, the entry is the input entry without its first 3 characters and
\* with the new name's character count as length if the input name begins
\* with "chr", is longer than 3 and the input length exceeds 3; otherwise it
\* is the input entry.  Entries not yet passed are the input entries; the
\* number and order of entries never change.
C3_TableNormalized ==
  AfterLoad =>
    /\ Len(header.targets) = Len(inFile.targets)
    /\ \A k \in 1..Len(inFile.targets) :
         LET o == inFile.targets[k]
             h == header.targets[k]
         IN IF (AfterNormalize \/ k <= i)
               /\ HasChrPrefix(o.name) /\ Len(o.name) > 3 /\ o.len > 3
            THEN /\ h.name = SubSeq(o.name, 4, Len(o.name))
                 /\ h.len = Len(o.name) - 3
            ELSE h = o

\* C3 witness: the run completed on a table holding a stripped entry and an
\* entry that begins with "chr" and was left alone.
C3_Witness ==
  /\ pc = "exited" /\ exitCode = 0
  /\ \E k \in 1..Len(inFile.targets) :
       /\ inFile.targets[k].name = <<"c", "h", "r", "1">>
       /\ inFile.targets[k].len > 3
       /\ header.targets[k] = [name |-> <<"1">>, len |-> 1]
  /\ \E k \in 1..Len(inFile.targets) :
       /\ HasChrPrefix(inFile.targets[k].name)
       /\ header.targets[k] = inFile.targets[k]

\* C4: header text rewriter.  The rewrite loop runs to its end (the process
\* is not killed inside it), and after it the text holds no "SN:chr", is the
\* loop's input with exactly the "chr" that follow "SN:" deleted, and
\* l_text is its character count.
C4_TextRewritten ==
  /\ exitCode # 134
  /\ AfterRewrite =>
       /\ StrStr(header.text, SNCHR) = 0
       /\ header.text = DropChrAfterSN(<<>>, RewriterInput)
       /\ header.l_text = Len(header.text)

\* C5: synthesis.  When the input has no header text and n > 0 entries, the
\* text handed to the output container is n "@SQ" lines, in table order,
\* each newline-terminated, the i-th built from the normalized table's
\* i-th name and length.
C5_SynthesizedMatchesTable ==
  (outOpen /\ InputLacksText) => outHeader.text = Declared(outHeader.targets)

\* C6: table/text consistency.  When the input text declares one @SQ line
\* per table entry with that entry's name, then after both rewrites the
\* i-th SN field of the text is the name of the i-th table entry.
C6_TableTextConsistent ==
  (AfterRewrite /\ ~inFile.textNull /\ inFile.targets # <<>>
     /\ inFile.text = Declared(inFile.targets))
    => SNFields(header.text) = TableNames(header.targets)

\* C7: no failure is swallowed.  After a failed record read or write the run
\* never prints the count nor exits 0, and it ends with a diagnostic and a
\* non-zero code; exit 0 follows only an end-of-stream.
C7_NoSwallowedFailure ==
  /\ (lastRead = "err" \/ writeFails > 0) =>
       /\ stdout = <<>>
       /\ exitCode # 0
       /\ pc = "exited" => stderr # <<>>
  /\ exitCode = 0 => lastRead = "eof"

\* C8: scoped acquisition.  When the process has terminated by a return
\* from main or a call of exit, no container is left open.
C8_ClosedOnExit ==
  (pc = "exited" /\ exitCode \in {0, 1}) => ~inOpen /\ ~outOpen

\* C9: input format detection.  Once the mode is chosen it is binary exactly
\* when the input path ends with ".bam", compared case-insensitively, and
\* binary mode drops the reference hint.
C9_BamSuffixDetected ==
  (pc # "start" /\ argc >= 3 /\ argv[2] # argv[3]) =>
     /\ (in_mode = "rb") <=> EndsWith(LowerStr(argv[2]), DOTBAM)
     /\ in_mode = "rb" => aux = <<>>

\* the exits of lines 14, 19, 36 and 95: code 1, nothing downstream has run
FailureExitsStop ==
  /\ (argc < 3 \/ argv[2] = argv[3]) =>
       /\ pc \in {"start", "exited"}
       /\ pc = "exited" => exitCode = 1
       /\ ~inOpen /\ ~outOpen /\ stdout = <<>>
  /\ (pc = "exited" /\ stderr # <<>>
        /\ stderr[Len(stderr)] = "failed to open input") =>
       /\ exitCode = 1
       /\ header = NoHeader /\ outHeader = NoHeader /\ ~outOpen
       /\ stdout = <<>>
  /\ (pc = "exited" /\ stderr # <<>>
        /\ stderr[Len(stderr)] = "failed to open output") =>
       /\ exitCode = 1
       /\ lastRead = "none" /\ inPos = 0 /\ outRecs = <<>> /\ writeFails = 0
       /\ stdout = <<>>

\* C10: failure exits stop the pipeline.  The usage, same-path, input-open
\* and output-open exits have code 1, run nothing downstream and print no
\* count; exit code 0 occurs only after end-of-stream was reached and the
\* count was reported.
C10_FailureExits ==
  /\ FailureExitsStop
  /\ exitCode = 0 => (lastRead = "eof" /\ stdout # <<>>)
====
